---------------------------- MODULE Spec2Model ----------------------------
(***************************************************************************)
(* Verification model of the testline quiz analysis and rank prediction    *)
(* code: the procedural server (analyzePerformance, predictRank and the    *)
(* three routes), the RankPredictor and QuizAnalyzer services and the      *)
(* validation helpers.                                                     *)
(*                                                                         *)
(* JavaScript numbers are modelled as exact rationals n/d (d > 0) extended *)
(* with NaN (0/0), +Infinity (1/0) and -Infinity (-1/0), with the IEEE     *)
(* rules for the non-finite values.  The rounding error of binary floating *)
(* point and the sign of zero are not modelled; Math.sqrt is exact on a    *)
(* rational root and truncated to four significant digits otherwise.       *)
(***************************************************************************)
EXTENDS Integers, Sequences, FiniteSets, TLC

(***************************************************************************)
(* Bounds of the model.                                                    *)
(***************************************************************************)
\* Longest historical series explored.
MaxHist == 3

\* The longest history the history endpoint answers when the fetches are followed.
MaxLoadedHist == 1

(***************************************************************************)
(* JavaScript number arithmetic.                                           *)
(***************************************************************************)
AbsI(i) == IF i < 0 THEN -i ELSE i

SgnI(i) == IF i < 0 THEN -1 ELSE IF i = 0 THEN 0 ELSE 1

RECURSIVE GCD(_, _)
GCD(a, b) == IF b = 0 THEN a ELSE GCD(b, a % b)

\* The rational n/d, d # 0, in lowest terms with a positive denominator.
Rat(n, d) ==
    LET g == GCD(AbsI(n), AbsI(d))
    IN  [n |-> SgnI(d) * (n \div g), d |-> AbsI(d) \div g]

Num(i) == [n |-> i, d |-> 1]

NaN == [n |-> 0, d |-> 0]

Inf(s) == [n |-> s, d |-> 0]

IsNaN(x) == x.d = 0 /\ x.n = 0

IsFinite(x) == x.d > 0

\* Number.isInteger
IsInteger(x) == x.d = 1

Neg(x) == [n |-> -x.n, d |-> x.d]

\* x + y
Add(x, y) ==
    IF IsNaN(x) \/ IsNaN(y) THEN NaN
    ELSE IF x.d = 0 /\ y.d = 0 THEN (IF x.n = y.n THEN x ELSE NaN)
    ELSE IF x.d = 0 THEN x
    ELSE IF y.d = 0 THEN y
    ELSE LET g == GCD(x.d, y.d)
         IN  Rat(x.n * (y.d \div g) + y.n * (x.d \div g), x.d * (y.d \div g))

\* x - y
Sub(x, y) == Add(x, Neg(y))

\* x * y
Mul(x, y) ==
    IF IsNaN(x) \/ IsNaN(y) THEN NaN
    ELSE IF x.d = 0 \/ y.d = 0
         THEN (IF x.n = 0 \/ y.n = 0 THEN NaN ELSE Inf(SgnI(x.n) * SgnI(y.n)))
    ELSE LET g1 == GCD(AbsI(x.n), y.d)
             g2 == GCD(AbsI(y.n), x.d)
         IN  [n |-> (x.n \div g1) * (y.n \div g2),
              d |-> (x.d \div g2) * (y.d \div g1)]

\* x / y
Div(x, y) ==
    IF IsNaN(x) \/ IsNaN(y) THEN NaN
    ELSE IF x.d = 0 /\ y.d = 0 THEN NaN
    ELSE IF x.d = 0 THEN Inf(IF y.n < 0 THEN -x.n ELSE x.n)
    ELSE IF y.d = 0 THEN Num(0)
    ELSE IF y.n = 0 THEN (IF x.n = 0 THEN NaN ELSE Inf(SgnI(x.n)))
    ELSE Mul(x, [n |-> SgnI(y.n) * y.d, d |-> AbsI(y.n)])

\* x < y (false when either is NaN)
Lt(x, y) ==
    IF IsNaN(x) \/ IsNaN(y) THEN FALSE
    ELSE IF x.d = 0 THEN x.n < 0 /\ ~(y.d = 0 /\ y.n < 0)
    ELSE IF y.d = 0 THEN y.n > 0
    ELSE x.n * y.d < y.n * x.d

\* x > y
Gt(x, y) == Lt(y, x)

\* x <= y (false when either is NaN)
Le(x, y) == ~IsNaN(x) /\ ~IsNaN(y) /\ ~Lt(y, x)

\* x >= y
Ge(x, y) == Le(y, x)

\* Math.max(x, y)
MathMax(x, y) ==
    IF IsNaN(x) \/ IsNaN(y) THEN NaN ELSE IF Lt(x, y) THEN y ELSE x

\* Math.abs(x)
MathAbs(x) == [n |-> AbsI(x.n), d |-> x.d]

\* Math.round(x): the integer nearest to x, a half rounding up.
MathRound(x) ==
    IF x.d = 0 THEN x
    ELSE Num((x.n \div x.d) + (IF 2 * (x.n % x.d) >= x.d THEN 1 ELSE 0))

\* Math.pow(x, 2)
MathPow2(x) == Mul(x, x)

\* The truthiness of a number: false for 0 and NaN.
Truthy(x) == ~IsNaN(x) /\ x.n # 0

\* Integer square root by Newton's iteration, from the guess g >= isqrt(k).
RECURSIVE ISqrtFrom(_, _)
ISqrtFrom(k, g) ==
    LET h == (g + k \div g) \div 2
    IN  IF h >= g THEN g ELSE ISqrtFrom(k, h)

ISqrt(k) == IF k < 2 THEN k ELSE ISqrtFrom(k, k \div 2 + 1)

IsSquare(k) == ISqrt(k) * ISqrt(k) = k

\* The grid Math.sqrt truncates an irrational root to: four significant digits.
SqrtScale(whole) ==
    IF whole < 100 THEN 1000
    ELSE IF whole < 10000 THEN 100
    ELSE IF whole < 1000000 THEN 10
    ELSE 1

\* Math.sqrt(x): exact when the root is rational, truncated to SqrtScale otherwise.
MathSqrt(x) ==
    IF IsNaN(x) \/ x.n < 0 THEN NaN
    ELSE IF x.d = 0 THEN x
    ELSE IF IsSquare(x.n) /\ IsSquare(x.d) THEN Rat(ISqrt(x.n), ISqrt(x.d))
    ELSE LET whole == x.n \div x.d
             scale == SqrtScale(whole)
             part  == ((x.n % x.d) * scale * scale) \div x.d
         IN  Rat(ISqrt(whole * scale * scale + part), scale)

\* values.reduce((a, b) => a + b, 0)
RECURSIVE SumSeq(_)
SumSeq(s) ==
    IF s = <<>> THEN Num(0)
    ELSE Add(SumSeq(SubSeq(s, 1, Len(s) - 1)), s[Len(s)])

\* array.map(f)
MapSeq(s, F(_)) == [i \in 1..Len(s) |-> F(s[i])]



(***************************************************************************)
(* The records the data loader hands to the routes.  A text field such as  *)
(* "90 %" is carried as the number parseFloat reads from it; Undefined is  *)
(* a field the record lacks.                                               *)
(***************************************************************************)
Undefined == [undefined |-> TRUE]

\* parseFloat(v)
parseFloat(v) == IF v = Undefined THEN NaN ELSE v

\* A historical attempt of the server's history.
Attempt(topic, accuracy, speed, score, incorrect, total, at) ==
    [quiz |-> [topic |-> topic], accuracy |-> Num(accuracy), speed |-> Num(speed),
     final_score |-> Num(score), incorrect_answers |-> incorrect,
     correct_answers |-> total - incorrect, total_questions |-> total,
     quiz_id |-> 1, submitted_at |-> at]

\* An attempt the API returns without its quiz object.
AttemptWithoutQuiz ==
    [Attempt("Genetics", 70, 100, 40, 2, 10, 7) EXCEPT !.quiz = Undefined]

HistoryAttempts ==
    { Attempt("Physiology", 60, 100, 40, 4, 10, 3),
      Attempt("Genetics",   50,  90, 40, 1, 10, 1),
      Attempt("Physiology", 80, 100,  0, 3, 10, 5),
      Attempt("Genetics",   90, 110,  0, 4, 10, 2),
      Attempt("Genetics",   90, 100, 60, 0,  0, 6),
      Attempt("Physiology", 90, 120, 40, 1, 10, 4),
      AttemptWithoutQuiz }

\* Every series of at most n attempts.
RECURSIVE SeqsUpTo(_, _)
SeqsUpTo(S, n) ==
    IF n = 0 THEN {<<>>}
    ELSE LET shorter == SeqsUpTo(S, n - 1)
         IN  shorter \cup {Append(h, a) : h \in shorter, a \in S}

Histories == SeqsUpTo(HistoryAttempts, MaxHist)

\* The current submission.
Submission(accuracy, speed, score, corrected, initial, correct, total) ==
    [accuracy |-> Num(accuracy), speed |-> Num(speed), final_score |-> Num(score),
     mistakes_corrected |-> corrected, initial_mistake_count |-> initial,
     correct_answers |-> correct, total_questions |-> total,
     quiz_id |-> 1, submitted_at |-> 7]

Submissions ==
    { Submission(80, 100,  30, 3, 4,  80, 100),
      Submission(80, 100,  30, 3, 4, 101, 100),
      Submission(80, 100,  30, 0, 0,  80, 100),
      Submission(80, 100,  30, 2, 0,  80, 100),
      Submission(95, 250, 100, 3, 4,  95, 100) }

(***************************************************************************)
(* server: analyzePerformance                                              *)
(***************************************************************************)
\* The thresholds of a weak area.
WeakAccuracy == 70

WeakMistakeRate == Rat(3, 10)

\* An object with string keys: the keys in insertion order and their values.
EmptyObject == [keys |-> <<>>, at |-> <<>>]

HasKey(obj, k) == \E i \in 1..Len(obj.keys) : obj.keys[i] = k

Get(obj, k) == obj.at[CHOOSE i \in 1..Len(obj.keys) : obj.keys[i] = k]

Put(obj, k, v) ==
    IF HasKey(obj, k)
    THEN [obj EXCEPT !.at = [i \in 1..Len(obj.keys) |->
                                IF obj.keys[i] = k THEN v ELSE obj.at[i]]]
    ELSE [keys |-> Append(obj.keys, k), at |-> Append(obj.at, v)]

\* One pass of history.forEach: the attempt is added to its topic's sums.
AccumulateAttempt(topicPerformance, attempt) ==
    LET topic == attempt.quiz.topic
        stats == IF HasKey(topicPerformance, topic)
                 THEN Get(topicPerformance, topic)
                 ELSE [attempts |-> 0, totalAccuracy |-> Num(0),
                       averageSpeed |-> Num(0), mistakeRate |-> Num(0)]
    IN  Put(topicPerformance, topic,
            [attempts      |-> stats.attempts + 1,
             totalAccuracy |-> Add(stats.totalAccuracy, parseFloat(attempt.accuracy)),
             averageSpeed  |-> Add(stats.averageSpeed, parseFloat(attempt.speed)),
             mistakeRate   |-> Add(stats.mistakeRate,
                                   Div(Num(attempt.incorrect_answers),
                                       Num(attempt.total_questions)))])

RECURSIVE AccumulateHistory(_)
AccumulateHistory(history) ==
    IF history = <<>> THEN EmptyObject
    ELSE AccumulateAttempt(AccumulateHistory(SubSeq(history, 1, Len(history) - 1)),
                           history[Len(history)])

\* A weak-area test that looks at the accuracy alone.
AccuracyOnlyWeakArea(stats) == Lt(stats.averageAccuracy, Num(WeakAccuracy))

\* Averages taken over one attempt fewer than were counted.
OneAttemptShort(stats) ==
    [attempts           |-> stats.attempts,
     totalAccuracy      |-> stats.totalAccuracy,
     mistakeRate        |-> stats.mistakeRate,
     averageAccuracy    |-> Div(stats.totalAccuracy, Num(stats.attempts - 1)),
     averageSpeed       |-> Div(stats.averageSpeed, Num(stats.attempts - 1)),
     averageMistakeRate |-> Div(stats.mistakeRate, Num(stats.attempts - 1))]

\* The averages of one topic.
FinalizeStats(stats) ==
    [attempts           |-> stats.attempts,
     totalAccuracy      |-> stats.totalAccuracy,
     mistakeRate        |-> stats.mistakeRate,
     averageAccuracy    |-> Div(stats.totalAccuracy, Num(stats.attempts)),
     averageSpeed       |-> Div(stats.averageSpeed, Num(stats.attempts)),
     averageMistakeRate |-> Div(stats.mistakeRate, Num(stats.attempts))]

\* The test that puts a topic in weakAreas.
IsWeakArea(stats) ==
    Lt(stats.averageAccuracy, Num(WeakAccuracy))
        \/ Gt(stats.averageMistakeRate, WeakMistakeRate)

\* The weak areas pushed while Object.entries(topicPerformance) is walked.
RECURSIVE CollectWeakAreas(_, _)
CollectWeakAreas(topicPerformance, n) ==
    IF n = 0 THEN <<>>
    ELSE LET before == CollectWeakAreas(topicPerformance, n - 1)
             stats  == topicPerformance.at[n]
         IN  IF IsWeakArea(stats)
             THEN Append(before, [topic           |-> topicPerformance.keys[n],
                                  averageAccuracy |-> stats.averageAccuracy,
                                  mistakeRate     |-> stats.averageMistakeRate])
             ELSE before

\* submission.mistakes_corrected / submission.initial_mistake_count
\* The ratio taken the other way round.
InitialOverCorrected(submission) ==
    Div(Num(submission.initial_mistake_count), Num(submission.mistakes_corrected))

\* submission.mistakes_corrected / submission.initial_mistake_count
mistakesImprovement(submission) ==
    Div(Num(submission.mistakes_corrected), Num(submission.initial_mistake_count))

analyzePerformance(submission, history) ==
    LET sums == AccumulateHistory(history)
        topicPerformance ==
            [keys |-> sums.keys,
             at   |-> [i \in 1..Len(sums.keys) |-> FinalizeStats(sums.at[i])]]
    IN  [currentPerformance |->
             [accuracy            |-> parseFloat(submission.accuracy),
              speed               |-> parseFloat(submission.speed),
              mistakesImprovement |-> mistakesImprovement(submission)],
         topicPerformance |-> topicPerformance,
         weakAreas |-> CollectWeakAreas(topicPerformance, Len(topicPerformance.keys)),
         trends |->
             [accuracy |-> [i \in 1..Len(history) |->
                              [date     |-> history[i].submitted_at,
                               accuracy |-> parseFloat(history[i].accuracy),
                               topic    |-> history[i].quiz.topic]],
              speed    |-> [i \in 1..Len(history) |->
                              [date  |-> history[i].submitted_at,
                               speed |-> parseFloat(history[i].speed),
                               topic |-> history[i].quiz.topic]]]]

(***************************************************************************)
(* server: calculateStandardDeviation and predictRank                      *)
(***************************************************************************)
\* The sample standard deviation (n - 1 in the divisor).
calculateStandardDeviation(values) ==
    LET n == Len(values)
        mean == Div(SumSeq(values), Num(n))
        squares == [i \in 1..n |-> MathPow2(Sub(values[i], mean))]
    IN  IF n < 2 THEN Num(0)
        ELSE MathSqrt(Div(SumSeq(squares), Num(n - 1)))

accuracyWeight == Rat(4, 10)

speedWeight == Rat(3, 10)

consistencyWeight == Rat(3, 10)

\* The rank scale of the server.
ServerMaxRank == 2000

\* The half width of the server's confidence interval.
ServerMargin == 200

\* 1 - standardDeviation / (averageScore || 1)
ServerConsistency(history) ==
    LET historicalScores == [i \in 1..Len(history) |-> parseFloat(history[i].final_score)]
        averageScore == Div(SumSeq(historicalScores), Num(Len(historicalScores)))
        standardDeviation == calculateStandardDeviation(historicalScores)
    IN  Sub(Num(1), Div(standardDeviation,
                        IF Truthy(averageScore) THEN averageScore ELSE Num(1)))

\* Math.round(2000 * (1 - weightedScore / 100))
ServerPredictedRank(weightedScore) ==
    MathRound(Mul(Num(ServerMaxRank), Sub(Num(1), Div(weightedScore, Num(100)))))

\* The server's confidence interval around predictedRank.
ServerConfidenceInterval(predictedRank) ==
    [lower |-> MathMax(Num(1), Sub(predictedRank, Num(ServerMargin))),
     upper |-> Add(predictedRank, Num(ServerMargin))]

\* The if/else chain that maps the rank to a college possibility.
ServerCollegePossibilities(predictedRank) ==
    IF Le(predictedRank, Num(1000)) THEN <<"Top Medical Colleges - High Chance">>
    ELSE IF Le(predictedRank, Num(2000)) THEN <<"Top Medical Colleges - Moderate Chance">>
    ELSE IF Le(predictedRank, Num(5000)) THEN <<"Good Medical Colleges - High Chance">>
    ELSE <<"Moderate Medical Colleges - Moderate Chance">>

predictRank(submission, history) ==
    LET currentScore == parseFloat(submission.final_score)
        historicalScores == [i \in 1..Len(history) |-> parseFloat(history[i].final_score)]
        averageScore == Div(SumSeq(historicalScores), Num(Len(historicalScores)))
        consistency == ServerConsistency(history)
        weightedScore ==
            Add(Add(Mul(currentScore, accuracyWeight),
                    Mul(parseFloat(submission.speed), speedWeight)),
                Mul(consistency, consistencyWeight))
        predictedRank == ServerPredictedRank(weightedScore)
    IN  [predictedRank |-> predictedRank,
         confidenceInterval |-> ServerConfidenceInterval(predictedRank),
         collegePossibilities |-> ServerCollegePossibilities(predictedRank),
         metrics |-> [weightedScore |-> weightedScore,
                      consistency   |-> consistency,
                      averageScore  |-> averageScore]]

(***************************************************************************)
(* services/RankPredictor.  historicalData is the constructor's argument.  *)
(***************************************************************************)
\* The number a field yields in arithmetic: NaN for a missing field.
ToNumber(v) == IF v = Undefined THEN NaN ELSE v

\* object.key: undefined when the object has no such property.
Prop(object, key) == IF key \in DOMAIN object THEN object[key] ELSE Undefined

\* The rank scale of getBaseRank.
maxRank == 50000

zScore == Rat(196, 100)

\* values.reduce((a, b) => a + b, 0) / values.length
Mean(values) == Div(SumSeq(values), Num(Len(values)))

\* values.reduce((sum, v) => sum + Math.pow(v - mean, 2), 0)
SumOfSquares(values, mean) ==
    SumSeq([i \in 1..Len(values) |-> MathPow2(Sub(values[i], mean))])

\* The variance with values.length in the divisor.
PopulationVariance(values) ==
    Div(SumOfSquares(values, Mean(values)), Num(Len(values)))

\* this.historicalData.map(data => data.score)
Scores(historicalData) ==
    [i \in 1..Len(historicalData) |-> ToNumber(historicalData[i].score)]

\* this.historicalData.map(data => data.rank)
Ranks(historicalData) ==
    [i \in 1..Len(historicalData) |-> ToNumber(historicalData[i].rank)]

\* 1 - Math.sqrt(variance) / mean
ConsistencyOf(variance, mean) == Sub(Num(1), Div(MathSqrt(variance), mean))

RP_calculateConsistency(historicalData) ==
    IF Len(historicalData) < 2 THEN Num(1)
    ELSE ConsistencyOf(PopulationVariance(Scores(historicalData)),
                       Mean(Scores(historicalData)))

\* (lastScore - firstScore) / firstScore
ImprovementOf(firstScore, lastScore) == Div(Sub(lastScore, firstScore), firstScore)

RP_calculateImprovement(historicalData) ==
    IF Len(historicalData) < 2 THEN Num(0)
    ELSE ImprovementOf(ToNumber(historicalData[1].score),
                       ToNumber(historicalData[Len(historicalData)].score))

RP_normalizeScore(historicalData, perf) ==
    Add(Add(Add(Mul(ToNumber(Prop(perf, "accuracy")), Rat(4, 10)),
                Mul(ToNumber(Prop(perf, "speed")), Rat(2, 10))),
            Mul(RP_calculateConsistency(historicalData), Rat(2, 10))),
        Mul(RP_calculateImprovement(historicalData), Rat(2, 10)))

\* The quotient taken without the test on the denominator.
UnguardedRatio(numerator, denominator) == Div(numerator, denominator)

\* denominator === 0 ? 1 : numerator / denominator
CorrelationRatio(numerator, denominator) ==
    IF denominator = Num(0) THEN Num(1) ELSE Div(numerator, denominator)

\* The coefficient with the product of the sums of squares left unrooted.
UnrootedPearson(scores, ranks, meanScore, meanRank) ==
    CorrelationRatio(
        SumSeq([i \in 1..Len(scores) |->
                   Mul(Sub(scores[i], meanScore), Sub(ranks[i], meanRank))]),
        Mul(SumOfSquares(scores, meanScore), SumOfSquares(ranks, meanRank)))

\* The numerator and the denominator of the Pearson coefficient.
Pearson(scores, ranks, meanScore, meanRank) ==
    CorrelationRatio(
        SumSeq([i \in 1..Len(scores) |->
                   Mul(Sub(scores[i], meanScore), Sub(ranks[i], meanRank))]),
        MathSqrt(Mul(SumOfSquares(scores, meanScore), SumOfSquares(ranks, meanRank))))

RP_calculateHistoricalCorrelation(historicalData) ==
    IF Len(historicalData) < 2 THEN Num(1)
    ELSE Pearson(Scores(historicalData), Ranks(historicalData),
                 Mean(Scores(historicalData)), Mean(Ranks(historicalData)))

RP_getBaseRank(normalizedScore) ==
    MathRound(Mul(Num(maxRank), Sub(Num(1), normalizedScore)))

RP_calculatePredictedRank(historicalData, normalizedScore) ==
    MathRound(Mul(RP_getBaseRank(normalizedScore),
                  RP_calculateHistoricalCorrelation(historicalData)))

\* The model's prediction for each historical record, beside its rank.
RP_predictions(historicalData) ==
    [i \in 1..Len(historicalData) |->
        [actual    |-> ToNumber(historicalData[i].rank),
         predicted |-> RP_calculatePredictedRank(historicalData,
                           RP_normalizeScore(historicalData, historicalData[i]))]]

\* predictions.map(p => Math.abs(p.actual - p.predicted))
ErrorsOf(predictions) ==
    [i \in 1..Len(predictions) |->
        MathAbs(Sub(predictions[i].actual, predictions[i].predicted))]

RP_calculateStandardError(historicalData) ==
    MathSqrt(PopulationVariance(ErrorsOf(RP_predictions(historicalData))))

\* The bounds at the given margin around predictedRank.
ConfidenceBounds(predictedRank, margin) ==
    [lower |-> MathMax(Num(1), MathRound(Sub(predictedRank, margin))),
     upper |-> MathRound(Add(predictedRank, margin))]

RP_calculateConfidenceInterval(historicalData, predictedRank) ==
    ConfidenceBounds(predictedRank, Mul(zScore, RP_calculateStandardError(historicalData)))

\* The probability taken against the buffer alone: 0.3 once past it.
ProbabilityWithoutCutoffStep(predictedRank, cutoff) ==
    IF Le(predictedRank, Sub(Num(cutoff), Mul(Num(cutoff), Rat(1, 10)))) THEN Rat(9, 10)
    ELSE Rat(3, 10)

RP_calculateCollegeProbability(predictedRank, cutoff) ==
    IF Le(predictedRank, Sub(Num(cutoff), Mul(Num(cutoff), Rat(1, 10)))) THEN Rat(9, 10)
    ELSE IF Le(predictedRank, Num(cutoff)) THEN Rat(7, 10)
    ELSE Rat(3, 10)

collegeTiers ==
    << [maxRank |-> 1000,  name |-> "Tier 1 Medical Colleges"],
       [maxRank |-> 5000,  name |-> "Tier 2 Medical Colleges"],
       [maxRank |-> 10000, name |-> "Tier 3 Medical Colleges"] >>

\* The entry getPotentialColleges makes of a qualifying tier.
CollegeEntry(predictedRank, tier) ==
    [name        |-> tier.name,
     probability |-> RP_calculateCollegeProbability(predictedRank, tier.maxRank),
     cutoffRange |-> [min |-> tier.maxRank - 1000, max |-> tier.maxRank]]

\* Tiers taken as exclusive: the tightest qualifying tier alone.
TightestTierOnly(predictedRank) ==
    LET qualifies(tier) == Le(predictedRank, Num(tier.maxRank))
        qualifying == SelectSeq(collegeTiers, qualifies)
    IN  IF qualifying = <<>> THEN <<>>
        ELSE <<CollegeEntry(predictedRank, qualifying[1])>>

RP_getPotentialColleges(predictedRank) ==
    LET qualifies(tier) == Le(predictedRank, Num(tier.maxRank))
        qualifying == SelectSeq(collegeTiers, qualifies)
    IN  [i \in 1..Len(qualifying) |-> CollegeEntry(predictedRank, qualifying[i])]

\* predictions.map(p => 1 - Math.abs(p.actual - p.predicted) / p.actual)
AccuraciesOf(predictions) ==
    [i \in 1..Len(predictions) |->
        Sub(Num(1), Div(MathAbs(Sub(predictions[i].actual, predictions[i].predicted)),
                        predictions[i].actual))]

RP_calculatePredictionAccuracy(historicalData) ==
    IF Len(historicalData) < 2 THEN Rat(7, 10)
    ELSE Mean(AccuraciesOf(RP_predictions(historicalData)))

\* The object predictRank returns.
PredictionResult(historicalData, normalizedScore, predictedRank) ==
    [predictedRank      |-> predictedRank,
     confidenceInterval |-> RP_calculateConfidenceInterval(historicalData, predictedRank),
     normalizedScore    |-> normalizedScore,
     potentialColleges  |-> RP_getPotentialColleges(predictedRank),
     accuracy           |-> RP_calculatePredictionAccuracy(historicalData)]

\* predictRank once normalizeScore has run.
PredictFromScore(historicalData, normalizedScore) ==
    PredictionResult(historicalData, normalizedScore,
                     RP_calculatePredictedRank(historicalData, normalizedScore))

RP_predictRank(historicalData, perf) ==
    PredictFromScore(historicalData, RP_normalizeScore(historicalData, perf))

\* The records of a predictor's history, and the performances it is asked about.
HistoricalRecord(score, rank, accuracy, speed) ==
    [score |-> Num(score), rank |-> Num(rank), accuracy |-> accuracy, speed |-> speed]

HistoricalRecords ==
    { HistoricalRecord(5, 400, Rat(8, 10), Rat(8, 10)),
      HistoricalRecord(7, 250, Rat(8, 10), Rat(9, 10)),
      HistoricalRecord(9, 100, Rat(9, 10), Rat(8, 10)),
      HistoricalRecord(5, 300, Rat(8, 10), Rat(8, 10)),
      HistoricalRecord(0, 500, Rat(8, 10), Rat(8, 10)),
      HistoricalRecord(0, 450, Rat(9, 10), Rat(9, 10)),
      HistoricalRecord(7, 400, Rat(8, 10), Rat(8, 10)) }

PredictorHistories == SeqsUpTo(HistoricalRecords, MaxHist)

Performances ==
    { [accuracy |-> Rat(9, 10), speed |-> Rat(8, 10)],
      [accuracy |-> Rat(6, 10), speed |-> Rat(5, 10)],
      [accuracy |-> Num(1), speed |-> Num(4)],
      [accuracy |-> Undefined, speed |-> Undefined] }

(***************************************************************************)
(* services/QuizAnalyzer.  quiz, sub and hist are this.currentQuiz,        *)
(* this.submission and this.history.                                       *)
(***************************************************************************)
\* questions.find(q => q.id === questionId): the first index, 0 when none.
FindQuestion(questions, questionId) ==
    IF \E i \in 1..Len(questions) : questions[i].id = questionId
    THEN CHOOSE i \in 1..Len(questions) :
            /\ questions[i].id = questionId
            /\ \A j \in 1..(i - 1) : questions[j].id # questionId
    ELSE 0

\* question && userAnswer === question.correctOption
\* An answer counted as correct as soon as the question is known and answered.
AnsweredIsCorrect(quiz, sub, questionId) ==
    /\ FindQuestion(quiz.questions, questionId) # 0
    /\ questionId \in DOMAIN sub.answers

QA_isCorrectAnswer(quiz, sub, questionId) ==
    /\ FindQuestion(quiz.questions, questionId) # 0
    /\ questionId \in DOMAIN sub.answers
    /\ sub.answers[questionId] =
           quiz.questions[FindQuestion(quiz.questions, questionId)].correctOption

\* One pass of questions.forEach: the question is counted under its topic.
CountQuestion(quiz, sub, topicStats, question) ==
    LET stats == IF HasKey(topicStats, question.topic)
                 THEN Get(topicStats, question.topic)
                 ELSE [total |-> 0, correct |-> 0]
    IN  Put(topicStats, question.topic,
            [total   |-> stats.total + 1,
             correct |-> stats.correct +
                            (IF QA_isCorrectAnswer(quiz, sub, question.id) THEN 1 ELSE 0)])

RECURSIVE CountQuestions(_, _, _)
CountQuestions(quiz, sub, n) ==
    IF n = 0 THEN EmptyObject
    ELSE CountQuestion(quiz, sub, CountQuestions(quiz, sub, n - 1), quiz.questions[n])

\* The entry of one topic: stats.correct / stats.total and the two counts.
TopicEntry(stats) ==
    [accuracy       |-> Div(Num(stats.correct), Num(stats.total)),
     totalQuestions |-> stats.total,
     correctAnswers |-> stats.correct]

\* The second loop of calculateTopicPerformance.
FinalizeTopics(topicStats) ==
    [keys |-> topicStats.keys,
     at   |-> [i \in 1..Len(topicStats.keys) |-> TopicEntry(topicStats.at[i])]]

QA_calculateTopicPerformance(quiz, sub) ==
    FinalizeTopics(CountQuestions(quiz, sub, Len(quiz.questions)))

NeedsImprovement(perf) == Lt(perf.accuracy, Rat(7, 10))

\* A weak topic taken at the bound of the improvement areas.
WeakUnderImprovementBound(perf) == Lt(perf.accuracy, Rat(7, 10))

IsWeakTopic(perf) == Lt(perf.accuracy, Rat(6, 10))

IsStrongTopic(perf) == Gt(perf.accuracy, Rat(8, 10))

\* The filter of each of the three selections of topics.
Keeps(selection, perf) ==
    CASE selection = "improvementAreas" -> NeedsImprovement(perf)
      [] selection = "weakTopics"       -> IsWeakTopic(perf)
      [] selection = "strongTopics"     -> IsStrongTopic(perf)

\* Object.entries(topicPerformance).filter(keep).map(([topic]) => topic)
RECURSIVE TopicsWhere(_, _, _)
TopicsWhere(topicPerformance, selection, n) ==
    IF n = 0 THEN <<>>
    ELSE IF Keeps(selection, topicPerformance.at[n])
         THEN Append(TopicsWhere(topicPerformance, selection, n - 1),
                     topicPerformance.keys[n])
         ELSE TopicsWhere(topicPerformance, selection, n - 1)

SelectTopics(topicPerformance, selection) ==
    TopicsWhere(topicPerformance, selection, Len(topicPerformance.keys))

QA_identifyImprovementAreas(quiz, sub) ==
    SelectTopics(QA_calculateTopicPerformance(quiz, sub), "improvementAreas")

QA_identifyWeakTopics(quiz, sub) ==
    SelectTopics(QA_calculateTopicPerformance(quiz, sub), "weakTopics")

QA_identifyStrongTopics(quiz, sub) ==
    SelectTopics(QA_calculateTopicPerformance(quiz, sub), "strongTopics")

QA_analyzePerformance(quiz, sub) ==
    [score |-> sub.score, accuracy |-> sub.accuracy, speed |-> sub.speed,
     weakTopics |-> QA_identifyWeakTopics(quiz, sub),
     strongTopics |-> QA_identifyStrongTopics(quiz, sub)]

QA_analyzePerformanceTrend(hist) ==
    [scoreProgression |-> [i \in 1..Len(hist) |-> hist[i].score],
     accuracyTrend    |-> [i \in 1..Len(hist) |-> hist[i].accuracy],
     speedTrend       |-> [i \in 1..Len(hist) |-> hist[i].speed]]

\* history.slice(-3)
SliceLast3(hist) == SubSeq(hist, IF Len(hist) > 3 THEN Len(hist) - 2 ELSE 1, Len(hist))

\* The questions of the topic among some questions.
TopicQuestions(questions, topic) ==
    LET ofTopic(q) == q.topic = topic IN SelectSeq(questions, ofTopic)

\* The number of them answered correctly in the current submission.
CorrectCount(quiz, sub, questions) ==
    LET correct(q) == QA_isCorrectAnswer(quiz, sub, q.id)
    IN  Len(SelectSeq(questions, correct))

\* correct / topicQuestions.length for one historical quiz.
TopicScoreOf(quiz, sub, topicQuestions) ==
    Div(Num(CorrectCount(quiz, sub, topicQuestions)), Num(Len(topicQuestions)))

\* A score change taken without the test on the number of scores.
UnguardedScoreChange(topicScores) ==
    IF Len(topicScores) < 1 THEN Num(0)
    ELSE Sub(topicScores[Len(topicScores)], topicScores[1])

\* The last score minus the first, 0 under two scores.
ScoreChange(topicScores) ==
    IF Len(topicScores) < 2 THEN Num(0)
    ELSE Sub(topicScores[Len(topicScores)], topicScores[1])

\* The scores of the recent quizzes on the topic.
TopicScores(quiz, sub, recentQuizzes, topic) ==
    [i \in 1..Len(recentQuizzes) |->
        TopicScoreOf(quiz, sub, TopicQuestions(recentQuizzes[i].questions, topic))]

QA_calculateTopicImprovement(quiz, sub, hist, topic) ==
    ScoreChange(TopicScores(quiz, sub, SliceLast3(hist), topic))

QA_determineTopicStatus(accuracy) ==
    IF Ge(accuracy, Rat(8, 10)) THEN "Mastered"
    ELSE IF Ge(accuracy, Rat(6, 10)) THEN "Improving"
    ELSE "Needs Focus"

\* The object analyzeTopicWisePerformance builds from the topic performance.
TopicWiseOf(quiz, sub, hist, topicPerformance) ==
    [keys |-> topicPerformance.keys,
     at   |-> [i \in 1..Len(topicPerformance.keys) |->
                 [accuracy    |-> topicPerformance.at[i].accuracy,
                  improvement |-> QA_calculateTopicImprovement(quiz, sub, hist,
                                      topicPerformance.keys[i]),
                  status      |-> QA_determineTopicStatus(topicPerformance.at[i].accuracy)]]]

QA_analyzeTopicWisePerformance(quiz, sub, hist) ==
    TopicWiseOf(quiz, sub, hist, QA_calculateTopicPerformance(quiz, sub))

QA_generateAnalysis(quiz, sub, hist) ==
    [performance |-> QA_analyzePerformance(quiz, sub),
     insights |->
         [improvementAreas  |-> QA_identifyImprovementAreas(quiz, sub),
          performanceTrend  |-> QA_analyzePerformanceTrend(hist),
          topicWiseAnalysis |-> QA_analyzeTopicWisePerformance(quiz, sub, hist)]]

QA_calculateAverageScore(hist) ==
    Mean([i \in 1..Len(hist) |-> ToNumber(hist[i].score)])

QA_calculateAverageAccuracy(hist) ==
    Mean([i \in 1..Len(hist) |-> ToNumber(hist[i].accuracy)])

QA_calculateImprovementRate(hist) ==
    IF Len(hist) < 2 THEN Num(0)
    ELSE ImprovementOf(ToNumber(hist[1].score), ToNumber(hist[Len(hist)].score))

QA_calculateConsistencyScore(hist) ==
    ConsistencyOf(PopulationVariance(Scores(hist)), Mean(Scores(hist)))

\* The array generateTopicWiseInsights maps the topic performance to.
TopicInsightsOf(quiz, sub, hist, topicPerformance) ==
    [i \in 1..Len(topicPerformance.keys) |->
        [topic            |-> topicPerformance.keys[i],
         accuracy         |-> topicPerformance.at[i].accuracy,
         improvement      |-> QA_calculateTopicImprovement(quiz, sub, hist,
                                  topicPerformance.keys[i]),
         recommendedFocus |-> Lt(topicPerformance.at[i].accuracy, Rat(7, 10))]]

QA_generateTopicWiseInsights(quiz, sub, hist) ==
    TopicInsightsOf(quiz, sub, hist, QA_calculateTopicPerformance(quiz, sub))

\* identifyConceptualGaps and generateRecommendations: one entry per weak topic.
PerWeakTopic(weakTopics, label) ==
    [i \in 1..Len(weakTopics) |-> [topic |-> weakTopics[i], text |-> label]]

QA_generateInsights(quiz, sub, hist) ==
    [overallPerformance |->
         [averageScore     |-> QA_calculateAverageScore(hist),
          averageAccuracy  |-> QA_calculateAverageAccuracy(hist),
          improvementRate  |-> QA_calculateImprovementRate(hist),
          consistencyScore |-> QA_calculateConsistencyScore(hist)],
     topicWiseAnalysis |-> QA_generateTopicWiseInsights(quiz, sub, hist),
     weakAreas |->
         [topics             |-> QA_generateAnalysis(quiz, sub, hist).performance.weakTopics,
          conceptualGaps     |-> PerWeakTopic(QA_identifyWeakTopics(quiz, sub),
                                              "Core concepts"),
          recommendedActions |-> PerWeakTopic(QA_identifyWeakTopics(quiz, sub),
                                              "Focus on strengthening fundamentals")],
     trends |-> QA_analyzePerformanceTrend(hist)]

\* The quizzes, submissions and histories an analyzer is built on.
Question(id, topic, correctOption) ==
    [id |-> id, topic |-> topic, correctOption |-> correctOption]

Quizzes ==
    { [questions |-> << Question(1, "Physiology", "A"), Question(2, "Physiology", "B"),
                        Question(3, "Genetics", "A") >>],
      [questions |-> << Question(3, "Genetics", "A"), Question(1, "Physiology", "A") >>],
      [questions |-> << Question(1, "Physiology", "A"), Question(2, "Physiology", "B"),
                        Question(3, "Genetics", "A"),   Question(4, "Physiology", "A"),
                        Question(5, "Physiology", "B"), Question(6, "Physiology", "A") >>],
      [questions |-> << >>] }

QuestionIds == {1, 2, 3}

Options == {"A", "B"}

\* The answers to the five Physiology questions of the long quiz of which
\* those in right, and no other, are correct.
LongQuizAnswers(right) ==
    [id \in {1, 2, 4, 5, 6} |->
        IF (id \in {1, 4, 6}) <=> (id \in right) THEN "A" ELSE "B"]

\* Every mapping of some of the first questions to a chosen option, and the
\* answers to the long quiz with none to five right.
AnswerMaps ==
    UNION { [ids -> Options] : ids \in SUBSET QuestionIds }
        \cup { LongQuizAnswers(right) :
                  right \in {{}, {1}, {1, 2}, {1, 2, 4}, {1, 2, 4, 5}, {1, 2, 4, 5, 6}} }

QuizSubmissions ==
    { [score |-> Num(30), accuracy |-> Rat(8, 10), speed |-> Num(100), answers |-> a] :
        a \in AnswerMaps }

HistoricalQuiz(score, rank, accuracy, questions) ==
    [score |-> Num(score), rank |-> Num(rank), accuracy |-> accuracy, speed |-> Num(1),
     questions |-> questions]

HistoricalQuizzes ==
    { HistoricalQuiz(40, 300, Rat(6, 10), << Question(1, "Physiology", "A"),
                                        Question(3, "Genetics", "A") >>),
      HistoricalQuiz(40, 200, Rat(8, 10), << Question(3, "Genetics", "A") >>),
      HistoricalQuiz(0, 500, Rat(0, 10), << Question(2, "Physiology", "B"),
                                        Question(1, "Physiology", "A") >>) }

QuizHistories == SeqsUpTo(HistoricalQuizzes, MaxHist)

(***************************************************************************)
(* utils: the statistics, the time series and the trends.                  *)
(***************************************************************************)
calculateMean(values) ==
    IF Len(values) = 0 THEN Num(0) ELSE Div(SumSeq(values), Num(Len(values)))

\* data.slice(Math.max(0, i - windowSize + 1), i + 1), i counted from 1 here.
MovingWindow(data, i, windowSize) ==
    SubSeq(data, IF i - windowSize + 1 > 1 THEN i - windowSize + 1 ELSE 1, i)

calculateMovingAverage(data, windowSize) ==
    [i \in 1..Len(data) |-> calculateMean(MovingWindow(data, i, windowSize))]

\* One more element put in its place by the comparator of the two sorts:
\* after every element whose submitted_at is not later (the sort is stable).
InsertByDate(sorted, sub) ==
    LET k == Cardinality({i \in 1..Len(sorted) : sorted[i].submitted_at <= sub.submitted_at})
    IN  SubSeq(sorted, 1, k) \o <<sub>> \o SubSeq(sorted, k + 1, Len(sorted))

\* .sort((a, b) => new Date(a.submitted_at) - new Date(b.submitted_at))
RECURSIVE SortByDate(_)
SortByDate(subs) ==
    IF subs = <<>> THEN <<>>
    ELSE InsertByDate(SortByDate(SubSeq(subs, 1, Len(subs) - 1)), subs[Len(subs)])

\* (sub.correct_answers / sub.total_questions) * 100
PercentCorrect(sub) ==
    Mul(Div(Num(sub.correct_answers), Num(sub.total_questions)), Num(100))

\* The value of a point of a time series.
MetricOf(sub, metric) ==
    IF metric = "accuracy" THEN PercentCorrect(sub) ELSE sub[metric]

\* The points mapped from the sorted array.
TimeSeriesPoints(sorted, metric) ==
    [i \in 1..Len(sorted) |->
        [date |-> sorted[i].submitted_at, value |-> MetricOf(sorted[i], metric)]]

\* prepareTimeSeriesData sorts the array it is given, in place, and maps it:
\* array is what the argument holds afterwards, result what is returned.
prepareTimeSeriesData(subs, metric) ==
    [array  |-> SortByDate(subs),
     result |-> TimeSeriesPoints(SortByDate(subs), metric)]

\* One pass of submissions.forEach in prepareTopicDistributionData.
CountSubmission(topicStats, sub) ==
    IF sub.quiz = Undefined THEN topicStats ELSE
    LET stats == IF HasKey(topicStats, sub.quiz.topic)
                 THEN Get(topicStats, sub.quiz.topic)
                 ELSE [totalQuestions |-> 0, correctAnswers |-> 0, attempts |-> 0]
    IN  Put(topicStats, sub.quiz.topic,
            [totalQuestions |-> stats.totalQuestions + sub.total_questions,
             correctAnswers |-> stats.correctAnswers + sub.correct_answers,
             attempts       |-> stats.attempts + 1])

RECURSIVE CountSubmissions(_)
CountSubmissions(subs) ==
    IF subs = <<>> THEN EmptyObject
    ELSE CountSubmission(CountSubmissions(SubSeq(subs, 1, Len(subs) - 1)), subs[Len(subs)])

\* Object.entries(topicStats).map(...)
TopicDistributionOf(topicStats) ==
    [i \in 1..Len(topicStats.keys) |->
        [topic     |-> topicStats.keys[i],
         accuracy  |-> Mul(Div(Num(topicStats.at[i].correctAnswers),
                               Num(topicStats.at[i].totalQuestions)), Num(100)),
         attempts  |-> topicStats.at[i].attempts,
         questions |-> topicStats.at[i].totalQuestions]]

prepareTopicDistributionData(subs) == TopicDistributionOf(CountSubmissions(subs))

\* One more topic put in its place by (a, b) => a.accuracy - b.accuracy; a
\* NaN difference compares as equal.
InsertByAccuracy(sorted, t) ==
    LET k == Cardinality({i \in 1..Len(sorted) : ~Gt(sorted[i].accuracy, t.accuracy)})
    IN  SubSeq(sorted, 1, k) \o <<t>> \o SubSeq(sorted, k + 1, Len(sorted))

RECURSIVE SortByAccuracy(_)
SortByAccuracy(topics) ==
    IF topics = <<>> THEN <<>>
    ELSE InsertByAccuracy(SortByAccuracy(SubSeq(topics, 1, Len(topics) - 1)),
                          topics[Len(topics)])

\* topicData.filter(topic => topic.accuracy < 70)
BelowWeakAccuracy(topicData) ==
    LET below(t) == Lt(t.accuracy, Num(70)) IN SelectSeq(topicData, below)

\* weakAreas.map(area => ...)
WeaknessEntries(weakAreas) ==
    [i \in 1..Len(weakAreas) |->
        [topic     |-> weakAreas[i].topic,
         accuracy  |-> weakAreas[i].accuracy,
         attempts  |-> weakAreas[i].attempts,
         questions |-> weakAreas[i].questions,
         recommendedFocus |-> IF Lt(weakAreas[i].accuracy, Num(50)) THEN "High" ELSE "Medium"]]

identifyWeaknesses(subs) ==
    WeaknessEntries(SortByAccuracy(BelowWeakAccuracy(prepareTopicDistributionData(subs))))

\* The accuracy points of analyzeImprovementTrends before the moving average.
RawAccuracyPoints(sortedSubs) == TimeSeriesPoints(sortedSubs, "accuracy")

\* The accuracy trend: the moving average of the raw values, beside them.
SmoothedPoints(raw, averages) ==
    [i \in 1..Len(raw) |->
        [date |-> raw[i].date, value |-> averages[i], raw |-> raw[i].value]]

\* trends.speed
SpeedPoints(sortedSubs) ==
    [i \in 1..Len(sortedSubs) |->
        [date |-> sortedSubs[i].submitted_at, value |-> parseFloat(sortedSubs[i].speed)]]

\* One pass of sortedSubs.forEach on trends.topicWise.
AddTopicPoint(topicWise, sub) ==
    IF sub.quiz = Undefined THEN topicWise ELSE
    Put(topicWise, sub.quiz.topic,
        Append(IF HasKey(topicWise, sub.quiz.topic) THEN Get(topicWise, sub.quiz.topic)
               ELSE <<>>,
               [date     |-> sub.submitted_at,
                accuracy |-> PercentCorrect(sub),
                speed    |-> parseFloat(sub.speed)]))

RECURSIVE TopicWisePoints(_)
TopicWisePoints(sortedSubs) ==
    IF sortedSubs = <<>> THEN EmptyObject
    ELSE AddTopicPoint(TopicWisePoints(SubSeq(sortedSubs, 1, Len(sortedSubs) - 1)),
                       sortedSubs[Len(sortedSubs)])

\* analyzeImprovementTrends once the copy of the array is sorted.
TrendsOf(sortedSubs) ==
    [accuracy  |-> SmoothedPoints(RawAccuracyPoints(sortedSubs),
                       calculateMovingAverage(
                           [i \in 1..Len(sortedSubs) |-> PercentCorrect(sortedSubs[i])], 3)),
     speed     |-> SpeedPoints(sortedSubs),
     topicWise |-> TopicWisePoints(sortedSubs)]

analyzeImprovementTrends(subs) == TrendsOf(SortByDate(subs))

(***************************************************************************)
(* utils: validateSubmissionData and validateHistoricalData.  Each gives   *)
(* the message of the Error it throws, or "ok" when it returns true.  The  *)
(* records of the model carry every required field.                        *)
(***************************************************************************)
validateSubmissionData(data) ==
    IF data.correct_answers > data.total_questions
    THEN "Correct answers cannot exceed total questions"
    ELSE IF Le(parseFloat(data.speed), Num(0))
    THEN "Speed must be a positive number"
    ELSE "ok"

validateHistoricalData(data) ==
    IF Len(data) = 0 THEN "Historical data array is empty"
    ELSE IF \E i \in 1..Len(data) : validateSubmissionData(data[i]) # "ok"
    THEN "Invalid submission"
    ELSE "ok"

(***************************************************************************)
(* server: the three routes.  A request awaits loadData and then runs the  *)
(* rest of its handler in one step.                                        *)
(***************************************************************************)
VARIABLES
    submission,   \* the submission record the loader returns
    history,      \* the historical series the loader returns
    route,        \* the route of the request in hand
    pc,           \* "idle", "loading" (awaiting loadData) or "done"
    calls,        \* the engine functions the handler has called, in order
    analysis,     \* the handler's analysis, once computed
    prediction,   \* the handler's prediction, once computed
    response      \* the response sent

serverVars == <<submission, history, route, pc, calls, analysis, prediction, response>>

(***************************************************************************)
(* The state of the two services, RankPredictor and QuizAnalyzer, when     *)
(* they are called on their own.                                           *)
(***************************************************************************)
VARIABLES
    historicalData,  \* RankPredictor: this.historicalData
    performance,     \* RankPredictor: the argument of predictRank
    rankResult,      \* RankPredictor: what predictRank returned
    currentQuiz,     \* QuizAnalyzer: this.currentQuiz
    quizSubmission,  \* QuizAnalyzer: this.submission
    quizHistory,     \* QuizAnalyzer: this.history
    quizResult,      \* QuizAnalyzer: what the called methods returned
    routerResponse   \* the router's /rank-prediction over both services

predictorVars == <<historicalData, performance, rankResult>>

analyzerVars == <<currentQuiz, quizSubmission, quizHistory, quizResult, routerResponse>>

(***************************************************************************)
(* The state of a caller of the utils: the array it passes, which the      *)
(* utils can reach, and what the last call returned.                       *)
(***************************************************************************)
VARIABLES
    submissions,  \* the array of submissions passed to the utils
    utilResult    \* what the last call returned

utilsVars == <<submissions, utilResult>>

(***************************************************************************)
(* The state of the data loader: the three fetches of loadData().          *)
(***************************************************************************)
VARIABLES
    endpoints,    \* what each API endpoint answers when its fetch succeeds
    settled,      \* the promises given to Promise.all, by position
    arrivals,     \* the positions in the order their fetches completed
    loaded        \* what loadData() returned

loaderVars == <<endpoints, settled, arrivals, loaded>>

vars == <<serverVars, predictorVars, analyzerVars, utilsVars, loaderVars>>

None == [none |-> TRUE]

Routes == {"analysis", "rank-prediction", "insights"}

RouteError(r) ==
    CASE r = "analysis"        -> "Analysis Failed"
      [] r = "rank-prediction" -> "Rank Prediction Failed"
      [] r = "insights"        -> "Insights Generation Failed"

\* res.status(500).json({ error, message: error.message })
Failure(r, message) ==
    [status |-> 500, body |-> [error |-> RouteError(r), message |-> message]]

\* The message of the TypeError of attempt.quiz.topic on an attempt without quiz.
TopicOfUndefined == "Cannot read properties of undefined (reading 'topic')"

\* analyzePerformance throws on the first attempt whose quiz is undefined.
analyzePerformanceThrows(h) == \E i \in 1..Len(h) : h[i].quiz = Undefined

\* area.averageAccuracy.toFixed(1), as the number of tenths it prints.
toFixed1(x) == IF IsFinite(x) THEN MathRound(Mul(x, Num(10))) ELSE x

\* The body of the insights response.
InsightsBody(a, p) ==
    [performance    |-> a,
     rankPrediction |-> p,
     recommendations |->
         [weakAreas        |-> a.weakAreas,
          improvementAreas |-> [i \in 1..Len(a.weakAreas) |->
                                  [topic    |-> a.weakAreas[i].topic,
                                   accuracy |-> toFixed1(a.weakAreas[i].averageAccuracy)]],
          nextSteps        |-> <<"Practice weak topics more frequently",
                                 "Focus on accuracy over speed initially",
                                 "Review mistakes after each quiz attempt">>]]

ServerInit ==
    /\ submission \in Submissions
    /\ history \in Histories
    /\ route = "none"
    /\ pc = "idle"
    /\ calls = <<>>
    /\ analysis = None
    /\ prediction = None
    /\ response = None

\* A GET arrives and its handler awaits loadData().
Request(r) ==
    /\ pc = "idle"
    /\ route' = r
    /\ pc' = "loading"
    /\ UNCHANGED <<submission, history, calls, analysis, prediction, response>>
    /\ UNCHANGED <<predictorVars, analyzerVars, utilsVars, loaderVars>>

\* loadData() rejects: the catch block answers 500.
LoadDataRejected ==
    /\ pc = "loading"
    /\ response' = Failure(route, "Data loading failed")
    /\ pc' = "done"
    /\ UNCHANGED <<submission, history, route, calls, analysis, prediction>>
    /\ UNCHANGED <<predictorVars, analyzerVars, utilsVars, loaderVars>>

\* GET /api/quiz/analysis after loadData() resolved.
HandleAnalysis ==
    /\ pc = "loading"
    /\ route = "analysis"
    /\ analysis' = IF analyzePerformanceThrows(history) THEN None
                   ELSE analyzePerformance(submission, history)
    /\ calls' = <<"analyzePerformance">>
    /\ response' = IF analyzePerformanceThrows(history) THEN Failure(route, TopicOfUndefined)
                   ELSE [status |-> 200, body |-> analysis']
    /\ pc' = "done"
    /\ UNCHANGED <<submission, history, route, prediction>>
    /\ UNCHANGED <<predictorVars, analyzerVars, utilsVars, loaderVars>>

\* GET /api/quiz/rank-prediction after loadData() resolved.
HandleRankPrediction ==
    /\ pc = "loading"
    /\ route = "rank-prediction"
    /\ prediction' = predictRank(submission, history)
    /\ calls' = <<"predictRank">>
    /\ response' = [status |-> 200, body |-> prediction']
    /\ pc' = "done"
    /\ UNCHANGED <<submission, history, route, analysis>>
    /\ UNCHANGED <<predictorVars, analyzerVars, utilsVars, loaderVars>>

\* The insights handler without its catch: what was computed is sent.
InsightsWithoutCatch ==
    /\ pc = "loading"
    /\ route = "insights"
    /\ analysis' = IF analyzePerformanceThrows(history) THEN None
                   ELSE analyzePerformance(submission, history)
    /\ prediction' = predictRank(submission, history)
    /\ calls' = <<"analyzePerformance", "predictRank">>
    /\ response' = IF analyzePerformanceThrows(history)
                   THEN [status |-> 200, body |-> [rankPrediction |-> prediction']]
                   ELSE [status |-> 200, body |-> InsightsBody(analysis', prediction')]
    /\ pc' = "done"
    /\ UNCHANGED <<submission, history, route>>
    /\ UNCHANGED <<predictorVars, analyzerVars, utilsVars, loaderVars>>

\* GET /api/quiz/insights after loadData() resolved.
HandleInsights ==
    /\ pc = "loading"
    /\ route = "insights"
    /\ analysis' = IF analyzePerformanceThrows(history) THEN None
                   ELSE analyzePerformance(submission, history)
    /\ prediction' = IF analyzePerformanceThrows(history) THEN None
                     ELSE predictRank(submission, history)
    /\ calls' = IF analyzePerformanceThrows(history) THEN <<"analyzePerformance">>
                ELSE <<"analyzePerformance", "predictRank">>
    /\ response' = IF analyzePerformanceThrows(history) THEN Failure(route, TopicOfUndefined)
                   ELSE [status |-> 200, body |-> InsightsBody(analysis', prediction')]
    /\ pc' = "done"
    /\ UNCHANGED <<submission, history, route>>
    /\ UNCHANGED <<predictorVars, analyzerVars, utilsVars, loaderVars>>

ServerIdle ==
    /\ submission = None
    /\ history = <<>>
    /\ route = "none"
    /\ pc = "off"
    /\ calls = <<>>
    /\ analysis = None
    /\ prediction = None
    /\ response = None

PredictorIdle ==
    /\ historicalData = <<>>
    /\ performance = None
    /\ rankResult = None

AnalyzerIdle ==
    /\ currentQuiz = None
    /\ quizSubmission = None
    /\ quizHistory = <<>>
    /\ quizResult = None
    /\ routerResponse = None

(***************************************************************************)
(* The server specification.                                               *)
(***************************************************************************)
UtilsIdle ==
    /\ submissions = <<>>
    /\ utilResult = None

LoaderIdle ==
    /\ endpoints = None
    /\ settled = <<>>
    /\ arrivals = <<>>
    /\ loaded = None

Init == ServerInit /\ PredictorIdle /\ AnalyzerIdle /\ UtilsIdle /\ LoaderIdle

Next ==
    \/ \E r \in Routes : Request(r)
    \/ LoadDataRejected
    \/ HandleAnalysis
    \/ HandleRankPrediction
    \/ HandleInsights

Spec == Init /\ [][Next]_vars

(***************************************************************************)
(* The RankPredictor specification: a predictor is built on a history and  *)
(* asked for a prediction.                                                 *)
(***************************************************************************)
PredictorInit ==
    /\ historicalData \in PredictorHistories
    /\ performance \in Performances
    /\ rankResult = None

\* new RankPredictor(historicalData).predictRank(performance)
CallPredictRank ==
    /\ rankResult = None
    /\ rankResult' = RP_predictRank(historicalData, performance)
    /\ UNCHANGED <<historicalData, performance, serverVars, analyzerVars, utilsVars, loaderVars>>

\* The caller drops the result and asks again.
DropPrediction ==
    /\ rankResult # None
    /\ rankResult' = None
    /\ UNCHANGED <<historicalData, performance, serverVars, analyzerVars, utilsVars, loaderVars>>

InitPredictor == PredictorInit /\ ServerIdle /\ AnalyzerIdle /\ UtilsIdle /\ LoaderIdle

NextPredictor == CallPredictRank \/ DropPrediction

SpecPredictor == InitPredictor /\ [][NextPredictor]_vars

(***************************************************************************)
(* The QuizAnalyzer specification: an analyzer is built on a quiz, a       *)
(* submission and a history and asked for its analysis or its insights.    *)
(***************************************************************************)
AnalyzerInit ==
    /\ currentQuiz \in Quizzes
    /\ quizSubmission \in QuizSubmissions
    /\ quizHistory \in QuizHistories
    /\ quizResult = None
    /\ routerResponse = None

\* new QuizAnalyzer(currentQuiz, submission, history).generateAnalysis()
CallGenerateAnalysis ==
    /\ quizResult = None
    /\ routerResponse = None
    /\ quizResult' = [call  |-> "generateAnalysis",
                      value |-> QA_generateAnalysis(currentQuiz, quizSubmission, quizHistory)]
    /\ UNCHANGED <<currentQuiz, quizSubmission, quizHistory, routerResponse>>
    /\ UNCHANGED <<serverVars, predictorVars, utilsVars, loaderVars>>

\* new QuizAnalyzer(currentQuiz, submission, history).generateInsights()
CallGenerateInsights ==
    /\ quizResult = None
    /\ routerResponse = None
    /\ quizResult' = [call  |-> "generateInsights",
                      value |-> QA_generateInsights(currentQuiz, quizSubmission, quizHistory)]
    /\ UNCHANGED <<currentQuiz, quizSubmission, quizHistory, routerResponse>>
    /\ UNCHANGED <<serverVars, predictorVars, utilsVars, loaderVars>>

\* router GET /rank-prediction once loadQuizData() resolved: a new analyzer
\* and a new predictor are built on the same history and the predictor is
\* given what generateAnalysis() returns.
RouterRankPrediction ==
    /\ quizResult = None
    /\ routerResponse = None
    /\ routerResponse' =
           [status |-> 200,
            body   |-> RP_predictRank(quizHistory,
                           QA_generateAnalysis(currentQuiz, quizSubmission, quizHistory))]
    /\ UNCHANGED <<currentQuiz, quizSubmission, quizHistory, quizResult>>
    /\ UNCHANGED <<serverVars, predictorVars, utilsVars, loaderVars>>

InitAnalyzer == AnalyzerInit /\ ServerIdle /\ PredictorIdle /\ UtilsIdle /\ LoaderIdle

NextAnalyzer == CallGenerateAnalysis \/ CallGenerateInsights \/ RouterRankPrediction

SpecAnalyzer == InitAnalyzer /\ [][NextAnalyzer]_vars

(***************************************************************************)
(* The utils specification: a caller holds an array of submissions and     *)
(* calls the utils on it, any number of times in any order.                *)
(***************************************************************************)
Metrics == {"accuracy", "speed"}

UtilsInit ==
    /\ submissions \in Histories
    /\ utilResult = None

\* prepareTimeSeriesData(submissions, metric)
CallPrepareTimeSeriesData(metric) ==
    /\ submissions' = prepareTimeSeriesData(submissions, metric).array
    /\ utilResult' = [call  |-> "prepareTimeSeriesData",
                      value |-> prepareTimeSeriesData(submissions, metric).result]
    /\ UNCHANGED <<serverVars, predictorVars, analyzerVars, loaderVars>>

\* analyzeImprovementTrends(submissions)
CallAnalyzeImprovementTrends ==
    /\ utilResult' = [call  |-> "analyzeImprovementTrends",
                      value |-> analyzeImprovementTrends(submissions)]
    /\ UNCHANGED <<submissions, serverVars, predictorVars, analyzerVars, loaderVars>>

\* identifyWeaknesses(submissions)
CallIdentifyWeaknesses ==
    /\ utilResult' = [call  |-> "identifyWeaknesses",
                      value |-> identifyWeaknesses(submissions)]
    /\ UNCHANGED <<submissions, serverVars, predictorVars, analyzerVars, loaderVars>>

InitUtils == UtilsInit /\ ServerIdle /\ PredictorIdle /\ AnalyzerIdle /\ LoaderIdle

NextUtils ==
    \/ \E metric \in Metrics : CallPrepareTimeSeriesData(metric)
    \/ CallAnalyzeImprovementTrends
    \/ CallIdentifyWeaknesses

SpecUtils == InitUtils /\ [][NextUtils]_vars

(***************************************************************************)
(* The loading specification: a request of the server whose loadData() is  *)
(* followed fetch by fetch.  The three fetches complete in any order, each *)
(* with the answer of its endpoint or with a failure.                      *)
(***************************************************************************)
\* API_ENDPOINTS, in the order loadData() gives them to Promise.all.
EndpointKeys == <<"currentQuiz", "submission", "history">>

EndpointContents ==
    [currentQuiz : Quizzes, submission : Submissions,
     history : SeqsUpTo(HistoryAttempts, MaxLoadedHist)]

\* How a fetch fails: fetch() rejects or response.json() throws, or
\* response.ok is false.
FetchFailures == {"network", "status"}

Pending == [state |-> "pending"]

Fulfilled(value) == [state |-> "fulfilled", value |-> value]

Rejected(reason) == [state |-> "rejected", reason |-> reason]

\* The message of the error fetchData throws.
FetchErrorMessage(failure) ==
    CASE failure = "network" -> "Failed to fetch data: request failed"
      [] failure = "status"  -> "Failed to fetch data: HTTP error! status: 500"

\* The message of the error loadData throws on it.
LoadErrorMessage(failure) ==
    CASE failure = "network" -> "Data loading failed: Failed to fetch data: request failed"
      [] failure = "status"  ->
             "Data loading failed: Failed to fetch data: HTTP error! status: 500"

\* The promises with the outcome of the i-th taken in arrival order: the
\* first pending place receives it.
SettleInArrivalOrder(promises, i, outcome) ==
    [promises EXCEPT ![CHOOSE j \in 1..Len(promises) :
                          /\ promises[j] = Pending
                          /\ \A k \in 1..(j - 1) : promises[k] # Pending] = outcome]

\* The promises given to Promise.all once the i-th has settled: its outcome
\* takes the i-th place.
Settle(promises, i, outcome) == [promises EXCEPT ![i] = outcome]

AllFulfilled(promises) ==
    \A i \in 1..Len(promises) : promises[i].state = "fulfilled"

\* const [currentQuiz, submission, history] = await Promise.all([...]);
\* return { currentQuiz, submission, history }
LoadDataResult(promises) ==
    [currentQuiz |-> promises[1].value,
     submission  |-> promises[2].value,
     history     |-> promises[3].value]

LoadingInit ==
    /\ endpoints \in EndpointContents
    /\ settled = <<>>
    /\ arrivals = <<>>
    /\ loaded = None
    /\ submission = None
    /\ history = <<>>
    /\ route = "none"
    /\ pc = "idle"
    /\ calls = <<>>
    /\ analysis = None
    /\ prediction = None
    /\ response = None

\* A GET arrives; its handler calls loadData(), which starts the three
\* fetches and awaits Promise.all.
StartLoading(r) ==
    /\ pc = "idle"
    /\ route' = r
    /\ pc' = "fetching"
    /\ settled' = [i \in 1..Len(EndpointKeys) |-> Pending]
    /\ UNCHANGED <<submission, history, calls, analysis, prediction, response>>
    /\ UNCHANGED <<endpoints, arrivals, loaded>>
    /\ UNCHANGED <<predictorVars, analyzerVars, utilsVars>>

\* The i-th fetch completes with the answer of its endpoint.  When it is
\* the last of three successes Promise.all resolves, loadData() returns and
\* the handler takes its submission and history from what it returned.
FetchSucceeds(i) ==
    /\ pc \in {"fetching", "done"}
    /\ settled[i] = Pending
    /\ settled' = Settle(settled, i, Fulfilled(endpoints[EndpointKeys[i]]))
    /\ arrivals' = Append(arrivals, i)
    /\ IF pc = "fetching" /\ AllFulfilled(settled')
       THEN /\ loaded' = LoadDataResult(settled')
            /\ submission' = loaded'.submission
            /\ history' = loaded'.history
            /\ pc' = "loading"
       ELSE UNCHANGED <<loaded, submission, history, pc>>
    /\ UNCHANGED <<route, calls, analysis, prediction, response, endpoints>>
    /\ UNCHANGED <<predictorVars, analyzerVars, utilsVars>>

\* The i-th fetch fails.  The first failure rejects Promise.all and
\* loadData(), and the catch block of the route answers 500; a later one
\* finds the promise already rejected.
FetchFails(i, failure) ==
    /\ pc \in {"fetching", "done"}
    /\ settled[i] = Pending
    /\ settled' = Settle(settled, i, Rejected(FetchErrorMessage(failure)))
    /\ arrivals' = Append(arrivals, i)
    /\ IF pc = "fetching"
       THEN /\ response' = Failure(route, LoadErrorMessage(failure))
            /\ pc' = "done"
       ELSE UNCHANGED <<response, pc>>
    /\ UNCHANGED <<submission, history, route, calls, analysis, prediction>>
    /\ UNCHANGED <<endpoints, loaded>>
    /\ UNCHANGED <<predictorVars, analyzerVars, utilsVars>>

InitLoading == LoadingInit /\ PredictorIdle /\ AnalyzerIdle /\ UtilsIdle

NextLoading ==
    \/ \E r \in Routes : StartLoading(r)
    \/ \E i \in 1..Len(EndpointKeys) : FetchSucceeds(i)
    \/ \E i \in 1..Len(EndpointKeys), failure \in FetchFailures : FetchFails(i, failure)
    \/ HandleAnalysis
    \/ HandleRankPrediction
    \/ HandleInsights

SpecLoading == InitLoading /\ [][NextLoading]_vars

(***************************************************************************)
(* Properties of the server's responses (specification Spec).              *)
(***************************************************************************)
\* The topics of the attempts of a history.
TopicsOf(h) == {h[i].quiz.topic : i \in 1..Len(h)}

\* The attempts of a history on one topic, in order.
AttemptsOn(h, topic) ==
    LET onTopic(a) == a.quiz.topic = topic IN SelectSeq(h, onTopic)

\* The mean over the attempts on a topic of a quantity of an attempt.
AverageOn(h, topic, Quantity(_)) ==
    Div(SumSeq(MapSeq(AttemptsOn(h, topic), Quantity)), Num(Len(AttemptsOn(h, topic))))

AccuracyOf(a) == parseFloat(a.accuracy)

SpeedOf(a) == parseFloat(a.speed)

MistakeRateOf(a) == Div(Num(a.incorrect_answers), Num(a.total_questions))

\* C1: in every prediction of the server, lower <= predictedRank <= upper
\* and lower >= 1.
C1_IntervalBracketsRank ==
    prediction # None =>
        /\ Le(prediction.confidenceInterval.lower, prediction.predictedRank)
        /\ Le(prediction.predictedRank, prediction.confidenceInterval.upper)
        /\ Ge(prediction.confidenceInterval.lower, Num(1))

\* C2: a submission with correct_answers > total_questions reaches no metric
\* function and gets no successful response.
C2_InvalidRangeRejected ==
    submission.correct_answers > submission.total_questions =>
        /\ calls = <<>>
        /\ response # None => response.status # 200

\* C3: weakAreas holds exactly the topics of the history whose mean accuracy
\* is under 70 or whose mean mistake rate is over 0.3, each of them once.
C3_WeakAreasExact ==
    analysis # None =>
        /\ {analysis.weakAreas[i].topic : i \in 1..Len(analysis.weakAreas)} =
               {t \in TopicsOf(history) :
                   \/ Lt(AverageOn(history, t, AccuracyOf), Num(70))
                   \/ Gt(AverageOn(history, t, MistakeRateOf), Rat(3, 10))}
        /\ \A i, j \in 1..Len(analysis.weakAreas) :
               analysis.weakAreas[i].topic = analysis.weakAreas[j].topic => i = j

\* C3 witness: an analysis of a history with a topic that is weak by its
\* mistake rate alone, one that is weak by its accuracy and one that is not weak.
C3_Witness ==
    /\ analysis # None
    /\ Len(analysis.topicPerformance.keys) = 2
    /\ Len(analysis.weakAreas) = 1
    /\ Ge(analysis.weakAreas[1].averageAccuracy, Num(70))
    /\ Gt(analysis.weakAreas[1].mistakeRate, Rat(3, 10))

\* C4: weakAreas is in ascending order of averageAccuracy.
C4_WeakAreasAscending ==
    analysis # None =>
        \A i, j \in 1..Len(analysis.weakAreas) :
            i < j => Le(analysis.weakAreas[i].averageAccuracy,
                        analysis.weakAreas[j].averageAccuracy)

\* C5: with initial_mistake_count = 0 an analysis that is produced carries a
\* finite mistakesImprovement (a request that fails produces none).
C5_ZeroInitialMistakesGuarded ==
    (submission.initial_mistake_count = 0 /\ analysis # None) =>
        IsFinite(analysis.currentPerformance.mistakesImprovement)

\* C8: topicPerformance holds exactly the topics that have attempts in the
\* history, each with its number of attempts (at least 1), and every average
\* of a finite sum is finite: no division by a zero attempt count.
C8_TopicsHaveAttempts ==
    analysis # None =>
        LET tp == analysis.topicPerformance IN
        /\ {tp.keys[i] : i \in 1..Len(tp.keys)} = TopicsOf(history)
        /\ \A i \in 1..Len(tp.keys) :
               /\ tp.at[i].attempts >= 1
               /\ tp.at[i].attempts = Len(AttemptsOn(history, tp.keys[i]))
               /\ IsFinite(tp.at[i].totalAccuracy) => IsFinite(tp.at[i].averageAccuracy)
               /\ IsFinite(tp.at[i].mistakeRate) => IsFinite(tp.at[i].averageMistakeRate)
               /\ tp.at[i].averageAccuracy = AverageOn(history, tp.keys[i], AccuracyOf)
               /\ tp.at[i].averageSpeed = AverageOn(history, tp.keys[i], SpeedOf)
               /\ IsFinite(tp.at[i].averageSpeed)

\* C8 witness: an analysis in which one topic of the two has no attempt and
\* is absent, and the other has several attempts.
C8_Witness ==
    /\ analysis # None
    /\ TopicsOf(history) = {"Genetics"}
    /\ analysis.topicPerformance.keys = <<"Genetics">>
    /\ analysis.topicPerformance.at[1].attempts >= 2
    /\ IsFinite(analysis.topicPerformance.at[1].averageMistakeRate)

(***************************************************************************)
(* Properties of RankPredictor.predictRank (specification SpecPredictor).  *)
(***************************************************************************)
\* C6: the predictedRank of every prediction is an integer and at least 1.
C6_RankPositiveInteger ==
    rankResult # None =>
        /\ IsInteger(rankResult.predictedRank)
        /\ Ge(rankResult.predictedRank, Num(1))

\* C7: over a history whose scores and ranks correlate negatively the
\* predictedRank is the base rank of the normalized score, the correlation
\* counted as 1.
C7_NegativeCorrelationFallsBack ==
    (rankResult # None /\ Lt(RP_calculateHistoricalCorrelation(historicalData), Num(0))) =>
        rankResult.predictedRank = RP_getBaseRank(rankResult.normalizedScore)

(***************************************************************************)
(* Properties of QuizAnalyzer (specification SpecAnalyzer).  The router    *)
(* builds its RankPredictor on the history it gives the analyzer.          *)
(***************************************************************************)
\* Every quiz of the history has the same score.
IdenticalScores(hist) ==
    /\ Len(hist) >= 1
    /\ \A i \in 1..Len(hist) : hist[i].score = hist[1].score

\* C9: the consistencyScore of the insights over a history of identical
\* scores is exactly 1.
C9_IdenticalScoresConsistent ==
    (quizResult # None /\ quizResult.call = "generateInsights"
        /\ IdenticalScores(quizHistory)) =>
        quizResult.value.overallPerformance.consistencyScore = Num(1)

\* The improvement of every topic an analysis or the insights report.
TopicImprovements(result) ==
    IF result.call = "generateAnalysis"
    THEN {result.value.insights.topicWiseAnalysis.at[i].improvement :
             i \in 1..Len(result.value.insights.topicWiseAnalysis.keys)}
    ELSE {result.value.topicWiseAnalysis[i].improvement :
             i \in 1..Len(result.value.topicWiseAnalysis)}

\* C10: over a history of exactly one quiz the improvement rate is 0, in the
\* insights and in the predictor built on that history, and the improvement of
\* every topic is 0.
C10_SingleAttemptNoImprovement ==
    (quizResult # None /\ Len(quizHistory) = 1) =>
        /\ quizResult.call = "generateInsights" =>
               quizResult.value.overallPerformance.improvementRate = Num(0)
        /\ TopicImprovements(quizResult) \subseteq {Num(0)}
        /\ \A t \in {"Physiology", "Genetics"} :
               QA_calculateTopicImprovement(currentQuiz, quizSubmission, quizHistory, t)
                   = Num(0)
        /\ RP_calculateImprovement(quizHistory) = Num(0)

\* C10 witness: insights over a one-quiz history whose only score is 0,
\* reporting the improvement of two topics, one without a question in that quiz.
C10_Witness ==
    /\ quizResult # None
    /\ quizResult.call = "generateInsights"
    /\ Len(quizHistory) = 1
    /\ quizHistory[1].score = Num(0)
    /\ Len(quizResult.value.topicWiseAnalysis) = 2
    /\ \E t \in {"Physiology", "Genetics"} :
           TopicQuestions(quizHistory[1].questions, t) = <<>>

(***************************************************************************)
(* Further properties of RankPredictor (specification SpecPredictor).      *)
(***************************************************************************)
\* C11: over a history of fewer than 2 records the standard error is 0 and
\* the confidence interval of the prediction is the point predictedRank.
C11_ShortHistoryPointInterval ==
    (rankResult # None /\ Len(historicalData) < 2) =>
        /\ RP_calculateStandardError(historicalData) = Num(0)
        /\ rankResult.confidenceInterval.lower = rankResult.predictedRank
        /\ rankResult.confidenceInterval.upper = rankResult.predictedRank

(***************************************************************************)
(* Further properties of QuizAnalyzer (specification SpecAnalyzer).        *)
(***************************************************************************)
\* C12: the improvementRate of the insights is finite; it is 0 over fewer
\* than 2 quizzes or a first score of 0, and otherwise (latest - first) / first.
C12_ImprovementRateGuarded ==
    (quizResult # None /\ quizResult.call = "generateInsights") =>
        LET rate == quizResult.value.overallPerformance.improvementRate IN
        /\ IsFinite(rate)
        /\ IF Len(quizHistory) < 2 \/ quizHistory[1].score = Num(0)
           THEN rate = Num(0)
           ELSE rate = Div(Sub(quizHistory[Len(quizHistory)].score, quizHistory[1].score),
                           quizHistory[1].score)

\* The quizzes of a history that have a question of the topic, in order.
QuizzesTouching(hist, topic) ==
    LET touches(q) == TopicQuestions(q.questions, topic) # <<>> IN SelectSeq(hist, touches)

\* Latest minus earliest topic accuracy over the last 3 quizzes that touch the
\* topic, 0 when fewer than 2 of them do.
ImprovementOverTouching(quiz, sub, hist, topic) ==
    LET recent == SliceLast3(QuizzesTouching(hist, topic))
        scoreOf(q) == TopicScoreOf(quiz, sub, TopicQuestions(q.questions, topic))
    IN  IF Len(recent) < 2 THEN Num(0)
        ELSE Sub(scoreOf(recent[Len(recent)]), scoreOf(recent[1]))

\* C13: the improvement an analysis reports for a topic is the latest minus
\* the earliest topic accuracy over the last 3 quizzes of the history that
\* touch the topic, and 0 when fewer than 2 quizzes touch it.
C13_TopicImprovementOverTouching ==
    (quizResult # None /\ quizResult.call = "generateAnalysis") =>
        LET topicWise == quizResult.value.insights.topicWiseAnalysis IN
        \A i \in 1..Len(topicWise.keys) :
            topicWise.at[i].improvement =
                ImprovementOverTouching(currentQuiz, quizSubmission, quizHistory,
                                        topicWise.keys[i])

(***************************************************************************)
(* Properties of the utils (specification SpecUtils).                      *)
(***************************************************************************)
\* C14: no call changes the array of submissions it is given: after every
\* call the array holds the same elements in the same order.
C14_InputsUnchanged == [][submissions' = submissions]_vars

(***************************************************************************)
(* Further properties of the server's responses (specification Spec).      *)
(***************************************************************************)
\* The dates of a trend are in ascending order.
AscendingDates(trend) ==
    \A i, j \in 1..Len(trend) : i < j => trend[i].date <= trend[j].date

\* C15: the accuracy trend and the speed trend of an analysis are in
\* ascending order of submitted_at.
C15_TrendsAscending ==
    analysis # None =>
        /\ AscendingDates(analysis.trends.accuracy)
        /\ AscendingDates(analysis.trends.speed)

(***************************************************************************)
(* The three consistency computations on one score series (specification   *)
(* SpecAnalyzer).                                                          *)
(***************************************************************************)
\* The scores of a history as the final_score of a server history.
AsFinalScores(hist) == [i \in 1..Len(hist) |-> [final_score |-> hist[i].score]]

\* C16: over a series of 2 or more scores whose mean is not 0, the
\* consistencyScore of the insights, RankPredictor's consistency and the
\* consistency of the server's predictRank are the same value.
C16_OneConsistencyFormula ==
    (quizResult # None /\ quizResult.call = "generateInsights"
        /\ Len(quizHistory) >= 2 /\ Mean(Scores(quizHistory)) # Num(0)) =>
        /\ quizResult.value.overallPerformance.consistencyScore =
               RP_calculateConsistency(quizHistory)
        /\ quizResult.value.overallPerformance.consistencyScore =
               ServerConsistency(AsFinalScores(quizHistory))

(***************************************************************************)
(* The historical correlation (specification SpecPredictor).               *)
(***************************************************************************)
\* Every value of the series is the same.
ZeroVariance(values) == \A i \in 1..Len(values) : values[i] = values[1]

Collinear(h) ==
    \A i, j, k \in 1..Len(h) :
        Mul(Sub(h[j].score, h[i].score), Sub(h[k].rank, h[i].rank)) =
            Mul(Sub(h[k].score, h[i].score), Sub(h[j].rank, h[i].rank))

\* Some record has a higher score and a lower rank than another.
RanksFallAsScoresRise(h) ==
    \E i, j \in 1..Len(h) : Lt(h[i].score, h[j].score) /\ Gt(h[i].rank, h[j].rank)

\* The sum over the records of (score - mean score) * (rank - mean rank).
CrossDeviation(h) ==
    SumSeq([i \in 1..Len(h) |->
               Mul(Sub(h[i].score, Mean(Scores(h))), Sub(h[i].rank, Mean(Ranks(h))))])

\* C18: over a history whose (score, rank) points lie on one line that is
\* neither flat nor upright, the correlation has magnitude 1 (the squared
\* numerator is the product of the two sums of squares), and it is -1 when
\* ranks fall as scores rise.
C18_LinearHistoryFullCorrelation ==
    (/\ rankResult # None
     /\ Len(historicalData) >= 2
     /\ Collinear(historicalData)
     /\ ~ZeroVariance(Scores(historicalData))
     /\ ~ZeroVariance(Ranks(historicalData))) =>
        /\ MathAbs(RP_calculateHistoricalCorrelation(historicalData)) = Num(1)
        /\ MathPow2(CrossDeviation(historicalData)) =
               Mul(SumOfSquares(Scores(historicalData), Mean(Scores(historicalData))),
                   SumOfSquares(Ranks(historicalData), Mean(Ranks(historicalData))))
        /\ RanksFallAsScoresRise(historicalData) =>
               RP_calculateHistoricalCorrelation(historicalData) = Num(-1)

\* C18 witness: a prediction over three points of one falling line.
C18_Witness ==
    /\ rankResult # None
    /\ Len(historicalData) = 3
    /\ Scores(historicalData) = <<Num(5), Num(7), Num(9)>>
    /\ Ranks(historicalData) = <<Num(400), Num(250), Num(100)>>
    /\ RP_calculateHistoricalCorrelation(historicalData) = Num(-1)

(***************************************************************************)
(* The college tiers of a prediction (specification SpecPredictor).        *)
(***************************************************************************)
\* C19: potentialColleges holds one entry for each tier of maxRank 1000, 5000
\* and 10000 that predictedRank does not exceed and no other entry, in
\* ascending order of maxRank; a tier that is present brings every looser one.
C19_AllQualifyingTiersInOrder ==
    rankResult # None =>
        LET colleges == rankResult.potentialColleges IN
        /\ \A m \in {1000, 5000, 10000} :
               (\E i \in 1..Len(colleges) : colleges[i].cutoffRange.max = m)
                   <=> Le(rankResult.predictedRank, Num(m))
        /\ \A i \in 1..Len(colleges) :
               /\ colleges[i].cutoffRange.max \in {1000, 5000, 10000}
               /\ colleges[i].name =
                      (CASE colleges[i].cutoffRange.max = 1000  -> "Tier 1 Medical Colleges"
                         [] colleges[i].cutoffRange.max = 5000  -> "Tier 2 Medical Colleges"
                         [] colleges[i].cutoffRange.max = 10000 -> "Tier 3 Medical Colleges")
               /\ \A m \in {1000, 5000, 10000} :
                      m > colleges[i].cutoffRange.max =>
                          \E j \in 1..Len(colleges) : colleges[j].cutoffRange.max = m
        /\ \A i, j \in 1..Len(colleges) :
               i < j => colleges[i].cutoffRange.max < colleges[j].cutoffRange.max

\* C19 witness: a prediction whose rank qualifies for the two looser tiers
\* and not for the tightest.
C19_Witness ==
    /\ rankResult # None
    /\ Gt(rankResult.predictedRank, Num(1000))
    /\ Le(rankResult.predictedRank, Num(5000))
    /\ Len(rankResult.potentialColleges) = 2

(***************************************************************************)
(* The responses of the server's routes (specification Spec).              *)
(***************************************************************************)
AnalysisFields == {"currentPerformance", "topicPerformance", "weakAreas", "trends"}

PredictionFields == {"predictedRank", "confidenceInterval", "collegePossibilities", "metrics"}

\* The body carries every field of the result of the route.
CompleteResult(r, body) ==
    CASE r = "analysis"        -> DOMAIN body = AnalysisFields
      [] r = "rank-prediction" -> DOMAIN body = PredictionFields
      [] r = "insights"        ->
             /\ DOMAIN body = {"performance", "rankPrediction", "recommendations"}
             /\ DOMAIN body.performance = AnalysisFields
             /\ DOMAIN body.rankPrediction = PredictionFields
             /\ DOMAIN body.recommendations = {"weakAreas", "improvementAreas", "nextSteps"}

CurrentMetrics(sub) == [accuracy |-> sub.accuracy, speed |-> sub.speed]

\* C21: in the router's /rank-prediction the accuracy and the speed that
\* normalizeScore reads from its argument are defined and are those of the
\* current submission, and the normalized score sent is the weighted sum
\* taken on them.
C21_PredictorConsumesCurrentMetrics ==
    routerResponse # None =>
        LET passed == QA_generateAnalysis(currentQuiz, quizSubmission, quizHistory) IN
        /\ Prop(passed, "accuracy") = quizSubmission.accuracy
        /\ Prop(passed, "speed") = quizSubmission.speed
        /\ routerResponse.body.normalizedScore =
               RP_normalizeScore(quizHistory, CurrentMetrics(quizSubmission))

(***************************************************************************)
(* The current performance of the server's analysis (specification Spec).  *)
(***************************************************************************)
\* C22: for a submission with initial_mistake_count > 0 the analysis reports
\* mistakesImprovement = mistakes_corrected / initial_mistake_count (3 of 4
\* is 3/4), and the accuracy and the speed of the submission itself.
C22_CurrentPerformanceOfSubmission ==
    (analysis # None /\ submission.initial_mistake_count > 0) =>
        /\ Mul(analysis.currentPerformance.mistakesImprovement,
               Num(submission.initial_mistake_count))
               = Num(submission.mistakes_corrected)
        /\ (submission.mistakes_corrected = 3 /\ submission.initial_mistake_count = 4) =>
               analysis.currentPerformance.mistakesImprovement = Rat(75, 100)
        /\ analysis.currentPerformance.accuracy = submission.accuracy
        /\ analysis.currentPerformance.speed = submission.speed

\* C22 witness: the analysis of a submission with 3 mistakes corrected of 4,
\* accuracy 95 and speed 250.
C22_Witness ==
    /\ analysis # None
    /\ submission.mistakes_corrected = 3
    /\ submission.initial_mistake_count = 4
    /\ submission.accuracy = Num(95)
    /\ submission.speed = Num(250)
    /\ analysis.currentPerformance =
           [accuracy |-> Num(95), speed |-> Num(250), mistakesImprovement |-> Rat(3, 4)]

(***************************************************************************)
(* The loading of the data (specification SpecLoading).                    *)
(***************************************************************************)
SomeRejected == \E i \in 1..Len(settled) : settled[i].state = "rejected"

\* C23: in whatever order the three fetches complete, loadData returns only
\* when all three have succeeded, with the answer of each endpoint under its
\* own key; once a fetch has failed the request is answered 500 with a
\* "Data loading failed" message and the route has run neither
\* analyzePerformance nor predictRank.
C23_LoadDataAllOrNothing ==
    /\ loaded # None =>
           /\ Len(settled) = 3 /\ AllFulfilled(settled)
           /\ loaded = [currentQuiz |-> endpoints.currentQuiz,
                        submission  |-> endpoints.submission,
                        history     |-> endpoints.history]
           /\ submission = endpoints.submission
           /\ history = endpoints.history
    /\ (Len(settled) = 3 /\ AllFulfilled(settled)) => loaded # None
    /\ (calls # <<>> \/ analysis # None \/ prediction # None) => loaded # None
    /\ SomeRejected =>
           /\ loaded = None
           /\ pc = "done"
           /\ response.status = 500
           /\ response.body.error = RouteError(route)
           /\ response.body.message \in {LoadErrorMessage(f) : f \in FetchFailures}
           /\ calls = <<>>
           /\ analysis = None
           /\ prediction = None

\* C23 witness: the history arrived first and the quiz last, and the
\* handler ran on the loaded submission and history.
C23_Witness ==
    /\ arrivals = <<3, 2, 1>>
    /\ loaded # None
    /\ pc = "done"
    /\ response.status = 200
    /\ Len(history) = 1
    /\ history = endpoints.history

\* C23 witness of the failure: two fetches succeeded, the submission's
\* failed last with a non-OK status, and the route answered 500.
C23_FailureWitness ==
    /\ arrivals = <<3, 1, 2>>
    /\ settled[1].state = "fulfilled"
    /\ settled[3].state = "fulfilled"
    /\ settled[2] = Rejected(FetchErrorMessage("status"))
    /\ pc = "done"
    /\ response = Failure(route, LoadErrorMessage("status"))
    /\ calls = <<>>

(***************************************************************************)
(* The probabilities of the college tiers (specification SpecPredictor).   *)
(***************************************************************************)
\* C24: every entry of potentialColleges has probability 0.9 or 0.7, never
\* 0.3, and the probabilities do not decrease from the tightest tier to the
\* loosest.
C24_ProbabilitiesOfQualifyingTiers ==
    rankResult # None =>
        LET colleges == rankResult.potentialColleges IN
        /\ \A i \in 1..Len(colleges) :
               /\ colleges[i].probability \in {Rat(9, 10), Rat(7, 10)}
               /\ colleges[i].probability # Rat(3, 10)
        /\ \A i, j \in 1..Len(colleges) :
               i < j => Le(colleges[i].probability, colleges[j].probability)

\* C24 witness: a prediction within the last tenth under a cutoff, whose
\* first entry has probability 0.7 and whose later entries 0.9.
C24_Witness ==
    /\ rankResult # None
    /\ Len(rankResult.potentialColleges) >= 2
    /\ rankResult.potentialColleges[1].probability = Rat(7, 10)
    /\ rankResult.potentialColleges[2].probability = Rat(9, 10)

(***************************************************************************)
(* The topics of an analysis (specification SpecAnalyzer).                 *)
(***************************************************************************)
\* The elements of a sequence.
Range(s) == {s[i] : i \in 1..Len(s)}

\* C25: in an analysis a topic is among the weak topics exactly when its
\* status is "Needs Focus"; a strong topic has status "Mastered"; no topic is
\* both weak and strong; every weak topic and no strong topic is an
\* improvement area.
C25_TopicSelectionsAgreeWithStatus ==
    (quizResult # None /\ quizResult.call = "generateAnalysis") =>
        LET weak      == Range(quizResult.value.performance.weakTopics)
            strong    == Range(quizResult.value.performance.strongTopics)
            improve   == Range(quizResult.value.insights.improvementAreas)
            topicWise == quizResult.value.insights.topicWiseAnalysis
        IN  /\ \A i \in 1..Len(topicWise.keys) :
                   /\ topicWise.keys[i] \in weak <=> topicWise.at[i].status = "Needs Focus"
                   /\ topicWise.keys[i] \in strong => topicWise.at[i].status = "Mastered"
            /\ weak \cup strong \cup improve \subseteq Range(topicWise.keys)
            /\ weak \cap strong = {}
            /\ weak \subseteq improve
            /\ strong \cap improve = {}

\* C25 witness: an analysis with one topic at exactly 0.8, mastered without
\* being strong, and another that is weak.
C25_Witness ==
    /\ quizResult # None
    /\ quizResult.call = "generateAnalysis"
    /\ quizResult.value.performance.weakTopics = <<"Genetics">>
    /\ quizResult.value.performance.strongTopics = <<>>
    /\ quizResult.value.insights.improvementAreas = <<"Genetics">>
    /\ Get(quizResult.value.insights.topicWiseAnalysis, "Physiology").status = "Mastered"
    /\ Get(quizResult.value.insights.topicWiseAnalysis, "Physiology").accuracy = Rat(8, 10)

(***************************************************************************)
(* The topic performance of a quiz (specification SpecAnalyzer).           *)
(***************************************************************************)
\* The questions of the topic, and those of them the submission answers with
\* their own correct option.
QuestionsOn(quiz, topic) ==
    {j \in 1..Len(quiz.questions) : quiz.questions[j].topic = topic}

RightlyAnswered(quiz, sub, topic) ==
    {j \in QuestionsOn(quiz, topic) :
        /\ quiz.questions[j].id \in DOMAIN sub.answers
        /\ sub.answers[quiz.questions[j].id] = quiz.questions[j].correctOption}

\* C26: calculateTopicPerformance has one entry for each topic that has a
\* question and no other; totalQuestions counts the questions of the topic
\* (at least 1, summing to the number of questions), correctAnswers counts
\* those answered with their correct option (an unanswered or wrongly answered
\* question never), and accuracy is their quotient, between 0 and 1.  The
\* accuracies of an analysis are these.
C26_TopicPerformanceCounts ==
    quizResult # None =>
        LET topicPerformance == QA_calculateTopicPerformance(currentQuiz, quizSubmission)
            keys == topicPerformance.keys
        IN  /\ Range(keys) = {currentQuiz.questions[j].topic :
                                 j \in 1..Len(currentQuiz.questions)}
            /\ \A i, j \in 1..Len(keys) : i # j => keys[i] # keys[j]
            /\ \A i \in 1..Len(keys) :
                   LET entry == topicPerformance.at[i] IN
                   /\ entry.totalQuestions = Cardinality(QuestionsOn(currentQuiz, keys[i]))
                   /\ entry.correctAnswers =
                          Cardinality(RightlyAnswered(currentQuiz, quizSubmission, keys[i]))
                   /\ 1 <= entry.totalQuestions
                   /\ 0 <= entry.correctAnswers
                   /\ entry.correctAnswers <= entry.totalQuestions
                   /\ entry.accuracy = Rat(entry.correctAnswers, entry.totalQuestions)
                   /\ Le(Num(0), entry.accuracy) /\ Le(entry.accuracy, Num(1))
            /\ SumSeq([i \in 1..Len(keys) |-> Num(topicPerformance.at[i].totalQuestions)])
                   = Num(Len(currentQuiz.questions))
            /\ quizResult.call = "generateAnalysis" =>
                   /\ quizResult.value.insights.topicWiseAnalysis.keys = keys
                   /\ \A i \in 1..Len(keys) :
                          quizResult.value.insights.topicWiseAnalysis.at[i].accuracy
                              = topicPerformance.at[i].accuracy

\* C26 witness: the analysis of the quiz of six questions with three of the
\* five Physiology questions right, two wrong and the Genetics one unanswered.
C26_Witness ==
    /\ quizResult # None
    /\ quizResult.call = "generateAnalysis"
    /\ Len(currentQuiz.questions) = 6
    /\ quizSubmission.answers = LongQuizAnswers({1, 2, 4})
    /\ QA_calculateTopicPerformance(currentQuiz, quizSubmission) =
           [keys |-> <<"Physiology", "Genetics">>,
            at   |-> << [accuracy |-> Rat(3, 5), totalQuestions |-> 5, correctAnswers |-> 3],
                        [accuracy |-> Num(0), totalQuestions |-> 1, correctAnswers |-> 0] >>]

=============================================================================
